---- MODULE Spec2Model ----
(***************************************************************************)
(* Provisioning orchestrator of the Yandex cloud account module:           *)
(*   - YandexServer / YandexHost (server_manager/www/yandex_account.ts):   *)
(*     the installation state machine, its progress stream and teardown;   *)
(*   - RestApiSession.createInstance (server_manager/cloud/yandex_api.ts): *)
(*     the retrying create-instance call;                                  *)
(*   - RestApiClient.fetchAuthenticated (same file): the access token.     *)
(*   - RestApiClient.computeEngineOperation{Zone,Region,Global}Wait: the   *)
(*     operation waiter.                                                   *)
(* The specifications share the variables: Spec (the server), SpecCreate   *)
(* (the retrying call), SpecAuth (the token) and SpecWait (the waiter);    *)
(* each leaves the variables of the others at their initial value.         *)
(***************************************************************************)
EXTENDS Integers, Sequences, FiniteSets, TLC

VARIABLES
  \* ---- YandexServer ----------------------------------------------------
  origin,        \* "createServer" or "listServers": who constructed the server
  isValue,       \* ValueStream<InstallState>: the current value
  isClosed,      \* ValueStream: closed (wakers === null)
  wake,          \* per consumer: the state of the waker it registered
  creation,      \* the instanceCreation promise given to the constructor
  hasIp,         \* the hasStaticIp promise started by the constructor
  cont,          \* position of the .then continuation of the constructor
  readiness,     \* instanceReadiness: settled state and rejection reason
  poll,          \* position of pollInstallState
  polls,         \* number of guest-attribute fetches issued (up to MaxPolls)
  managementApi, \* setManagementApi has been called
  closedWrites,  \* set() calls made on the closed ValueStream
  del,           \* position of each YandexHost.delete() call
  replies,       \* per delete() call: the outcomes of its requests, in order
  thrown,        \* per delete() call: the error it rejected with
  staticIp,      \* cloud: a static address with the server's name exists
  instance,      \* cloud: the compute instance exists
  log,           \* cloud: the mutating requests received, in order
  cons,          \* position of each monitorInstallProgress() consumer
  yielded,       \* per consumer: the fractions received, in hundredths
  \* ---- RestApiSession.createInstance -----------------------------------
  cPc,           \* position of the createInstance call
  requestCount,  \* let requestCount of makeCreateInstanceRequest
  keyRegs,       \* key-registration requests sent
  keyId,         \* the id the key registration returned (0: none yet)
  sshKeys,       \* the ssh_keys field of each creation request sent, in order
  clock,         \* time, in ms
  sent,          \* creation requests sent
  sentAt,        \* the time the last creation request was sent
  retries,       \* retry timers set
  failedAt,      \* the time the last retried creation request failed
  lastError,     \* the error of the last failed creation request
  cResult,       \* how the promise of createInstance settled
  \* ---- RestApiClient ---------------------------------------------------
  accessToken,   \* this.accessToken: 0 (absent) or the number of the token held
  aPc,           \* position of each fetchAuthenticated call
  bearer,        \* per call: the token its API request carried (0: not sent)
  tokenRequests, \* requests sent to the token endpoint
  tokenWrites,   \* assignments to this.accessToken
  \* ---- RestApiClient, the operation waiter ------------------------------
  wScope,        \* the wait variant called: zone, region or global
  wOperation,    \* the operation the wait endpoint resolves with
  wPc,           \* position of the wait call
  wResult,       \* what the wait call returned or threw
  \* ---- the request executors -------------------------------------------
  xExecutor,     \* fetchUnauthenticated (RestApiClient) or request (RestApiSession)
  xResponse,     \* what the network answers: status, status text, kind of body
  xPc,           \* position of the call
  xResult,       \* how the promise of the call settled, if it did
  \* ---- parseZoneUrl ------------------------------------------------------
  zUrl,          \* the argument: absolute or not, and the segments of its path
  zPc,           \* position of the call
  zResult,       \* what the call returned or threw
  \* ---- YandexAccount.createServer ----------------------------------------
  csPc,          \* position of the createServer call
  csOperation,   \* the operation the create-instance request is answered with
  csResult       \* what createServer returned or threw

serverVars == <<origin, isValue, isClosed, wake, creation, hasIp, cont,
                readiness, poll, polls, managementApi, closedWrites,
                del, replies, thrown, staticIp, instance, log, cons, yielded>>
createVars == <<cPc, requestCount, keyRegs, keyId, sshKeys, clock, sent, sentAt, retries,
                failedAt, lastError, cResult>>
authVars   == <<accessToken, aPc, bearer, tokenRequests, tokenWrites>>
waitVars   == <<wScope, wOperation, wPc, wResult>>
requestVars == <<xExecutor, xResponse, xPc, xResult>>
urlVars    == <<zUrl, zPc, zResult>>
accountVars == <<csPc, csOperation, csResult>>
vars       == <<serverVars, createVars, authVars, waitVars, requestVars, urlVars,
                accountVars>>

----------------------------------------------------------------------------
\* Bounds of the model.
MaxPolls     == 3   \* guest-attribute fetches per run
MaxDeletes   == 2   \* delete() calls per server
MaxConsumers == 2   \* monitorInstallProgress() consumers per server
MaxCallers   == 3   \* fetchAuthenticated calls on one RestApiClient
MaxLatency   == 1   \* longest time a creation request takes, in ms
MaxErrors    == 2   \* longest error list of an operation

Deletes   == 1..MaxDeletes
Consumers == 1..MaxConsumers
Callers   == 1..MaxCallers

----------------------------------------------------------------------------
\* enum InstallState, with its numeric values.
InstallState ==
  [UNKNOWN |-> 0, INSTANCE_CREATED |-> 1, IP_ALLOCATED |-> 2,
   INSTANCE_RUNNING |-> 3, CERTIFICATE_CREATED |-> 4, COMPLETED |-> 5,
   FAILED |-> 6, CANCELED |-> 7]

States == DOMAIN InstallState

\* getCompletionFraction, in hundredths.
getCompletionFraction(state) ==
  CASE state = "UNKNOWN"             -> 1
    [] state = "INSTANCE_CREATED"    -> 12
    [] state = "IP_ALLOCATED"        -> 14
    [] state = "INSTANCE_RUNNING"    -> 40
    [] state = "CERTIFICATE_CREATED" -> 70
    [] state = "COMPLETED"           -> 100
    [] OTHER                         -> 0

isFinal(state) == state \in {"COMPLETED", "FAILED", "CANCELED"}

\* is404: an HttpError with status code 404.
is404(e) == e = "http404"

\* Outcomes of one request of RestApiClient: a 2xx response, HttpError(404),
\* or any other failure (another HttpError, a body that does not parse).
Outcomes == {"ok", "http404", "error"}

\* The guest-attribute keys the poll loop looks at.
Keys == {"install-started", "certSha256", "apiUrl", "install-error"}
Snapshots == SUBSET Keys

----------------------------------------------------------------------------
\* ValueStream (infrastructure/value_stream): set() on a closed stream throws
\* and leaves the value; set() wakes every registered waker with closed =
\* false; close() wakes the (then empty) list with closed = true.
StreamSet(newState) ==
  /\ ~isClosed
  /\ isValue' = newState
  /\ wake' = [c \in Consumers |-> IF wake[c] = "pending" THEN "open" ELSE wake[c]]

\* setInstallState that never closes the stream.
setInstallStateNoClose(newState) ==
  /\ StreamSet(newState)
  /\ isClosed' = FALSE
  /\ UNCHANGED closedWrites

\* YandexServer.setInstallState on an open stream: set, then close if final.
setInstallState(newState) ==
  /\ StreamSet(newState)
  /\ isClosed' = isFinal(newState)
  /\ UNCHANGED closedWrites

\* YandexServer.setInstallState on a closed stream: set() throws.
setInstallStateThrows ==
  /\ isClosed
  /\ closedWrites' = closedWrites + 1
  /\ UNCHANGED <<isValue, isClosed, wake>>

StreamUnchanged == UNCHANGED <<isValue, isClosed, wake, closedWrites>>

\* A step of the server leaves the other two components alone.
ServerStep == UNCHANGED <<createVars, authVars, waitVars, requestVars, urlVars, accountVars>>

----------------------------------------------------------------------------
\* pollInstallState with install-error tested before apiUrl and certSha256.
PollTransitionErrorFirst(attrs) ==
  IF "install-error" \in attrs
    THEN [write |-> "FAILED", publish |-> FALSE, stop |-> TRUE]
  ELSE IF "apiUrl" \in attrs /\ "certSha256" \in attrs
    THEN [write |-> "COMPLETED", publish |-> TRUE, stop |-> TRUE]
  ELSE IF "certSha256" \in attrs
    THEN [write |-> "CERTIFICATE_CREATED", publish |-> FALSE, stop |-> FALSE]
  ELSE IF "install-started" \in attrs
    THEN [write |-> "INSTANCE_RUNNING", publish |-> FALSE, stop |-> FALSE]
  ELSE [write |-> "none", publish |-> FALSE, stop |-> FALSE]

\* pollInstallState with certSha256 tested before install-error.
PollTransitionCertFirst(attrs) ==
  IF "apiUrl" \in attrs /\ "certSha256" \in attrs
    THEN [write |-> "COMPLETED", publish |-> TRUE, stop |-> TRUE]
  ELSE IF "certSha256" \in attrs
    THEN [write |-> "CERTIFICATE_CREATED", publish |-> FALSE, stop |-> FALSE]
  ELSE IF "install-error" \in attrs
    THEN [write |-> "FAILED", publish |-> FALSE, stop |-> TRUE]
  ELSE IF "install-started" \in attrs
    THEN [write |-> "INSTANCE_RUNNING", publish |-> FALSE, stop |-> FALSE]
  ELSE [write |-> "none", publish |-> FALSE, stop |-> FALSE]

\* YandexServer.pollInstallState, the if / else-if chain of one iteration:
\* the state written ("none": no call of setInstallState), whether the
\* management API is published first, and whether the loop breaks.
PollTransition(attrs) ==
  IF "apiUrl" \in attrs /\ "certSha256" \in attrs
    THEN [write |-> "COMPLETED", publish |-> TRUE, stop |-> TRUE]
  ELSE IF "install-error" \in attrs
    THEN [write |-> "FAILED", publish |-> FALSE, stop |-> TRUE]
  ELSE IF "certSha256" \in attrs
    THEN [write |-> "CERTIFICATE_CREATED", publish |-> FALSE, stop |-> FALSE]
  ELSE IF "install-started" \in attrs
    THEN [write |-> "INSTANCE_RUNNING", publish |-> FALSE, stop |-> FALSE]
  ELSE [write |-> "none", publish |-> FALSE, stop |-> FALSE]

\* RestApiClient.getGuestAttributes + getOutlineGuestAttributes: every error
\* of the fetch is caught and gives undefined, hence an empty map.
GuestAttributesResult(outcome, attrs) ==
  IF outcome = "ok" THEN attrs ELSE {}

\* The server handle is in the caller's hands. listServers passes a resolved
\* promise, so the continuation's first part runs before listServers returns.
HandleAvailable == ~(origin = "listServers" /\ cont = "waitCreation")

Settled(e) == [status |-> IF e = "none" THEN "resolved" ELSE "rejected", error |-> e]

\* A .catch handler that rethrows without setInstallState(FAILED).
CatchHandlerNoFail(e) ==
  /\ cont' = "settled"
  /\ readiness' = Settled(e)
  /\ StreamUnchanged
  /\ UNCHANGED <<poll, polls>>

\* The .catch handler of the constructor: setInstallState(FAILED); throw e.
\* On a closed stream set() throws, and that error replaces e.
CatchHandler(e) ==
  /\ cont' = "settled"
  /\ IF isClosed
       THEN setInstallStateThrows /\ readiness' = Settled("closedStream")
       ELSE setInstallState("FAILED") /\ readiness' = Settled(e)
  /\ UNCHANGED <<poll, polls>>

\* A .then callback that starts polling without setting IP_ALLOCATED.
ThenFinishNoState ==
  /\ cont' = "settled"
  /\ readiness' = Settled("none")
  /\ StreamUnchanged
  /\ IF isClosed
       THEN UNCHANGED <<poll, polls>>
       ELSE poll' = "fetching" /\ polls' = polls + 1

\* The end of the .then callback: isClosed check, IP_ALLOCATED, start polling.
\* pollInstallState runs to its first await: the first fetch is issued.
ThenFinish ==
  /\ cont' = "settled"
  /\ readiness' = Settled("none")
  /\ IF isClosed
       THEN StreamUnchanged /\ UNCHANGED <<poll, polls>>
       ELSE /\ setInstallState("IP_ALLOCATED")
            /\ poll' = "fetching"
            /\ polls' = polls + 1

\* instanceCreation resolves; the .then callback runs up to `await hasStaticIp`.
InstanceCreationResult(done) ==
  /\ origin = "listServers" => done
  /\ cont = "waitCreation"
  /\ creation = IF origin = "listServers" THEN "resolved" ELSE "pending"
  /\ creation' = "resolved"
  /\ instance' = TRUE
  /\ IF isClosed
       THEN /\ cont' = "settled"
            /\ readiness' = Settled("none")
            /\ StreamUnchanged
       ELSE /\ setInstallState("INSTANCE_CREATED")
            /\ cont' = "awaitHasStaticIp"
            /\ UNCHANGED readiness
  /\ UNCHANGED <<origin, hasIp, poll, polls, managementApi, del, replies, thrown,
                 staticIp, log, cons, yielded>>

\* The promise given to the constructor resolves: the resolved promise of
\* listServers, or the zone wait of createServer, which returns the operation
\* it was answered with, done or still running when the timeout of the
\* platform elapsed.
InstanceCreationResolves ==
  /\ ServerStep
  /\ \E done \in BOOLEAN : InstanceCreationResult(done)

\* instanceCreation rejects (computeEngineOperationZoneWait threw).
InstanceCreationRejects ==
  /\ ServerStep
  /\ cont = "waitCreation"
  /\ creation = "pending"
  /\ creation' = "rejected"
  /\ instance' \in BOOLEAN
  /\ CatchHandler("creationError")
  /\ UNCHANGED <<origin, hasIp, managementApi, del, replies, thrown, staticIp, log,
                 cons, yielded>>

\* YandexServer.hasStaticIp settles: true on 2xx, false on 404, and it throws
\* ServerInstallFailedError on anything else.
HasStaticIpResult(outcome) ==
  IF outcome = "ok" THEN "true"
  ELSE IF is404(outcome) THEN "false"
  ELSE "rejected"

HasStaticIpSettles ==
  /\ ServerStep
  /\ hasIp = "pending"
  /\ HandleAvailable
  /\ \E outcome \in Outcomes :
       /\ outcome = "ok" => staticIp
       /\ outcome = "http404" => ~staticIp
       /\ hasIp' = HasStaticIpResult(outcome)
  /\ UNCHANGED <<origin, isValue, isClosed, wake, creation, cont, readiness, poll,
                 polls, managementApi, closedWrites, del, replies, thrown, staticIp,
                 instance, log, cons, yielded>>

\* A continuation that promotes whatever the pre-check reported.
NeedsPromotionAlways == hasIp \in {"true", "false"}

\* `!(await hasStaticIp)`, the pre-check having returned.
NeedsPromotion == hasIp = "false"

\* The .then callback after `await hasStaticIp`.
AfterHasStaticIp ==
  /\ ServerStep
  /\ cont = "awaitHasStaticIp"
  /\ hasIp # "pending"
  /\ \/ /\ hasIp # "rejected" /\ ~NeedsPromotion
        /\ ThenFinish
     \/ /\ hasIp # "rejected" /\ NeedsPromotion
        /\ cont' = "getInstance"
        /\ StreamUnchanged
        /\ UNCHANGED <<readiness, poll, polls>>
     \/ /\ hasIp = "rejected"
        /\ CatchHandler("staticIpCheckFailed")
  /\ UNCHANGED <<origin, creation, hasIp, managementApi, del, replies, thrown, staticIp,
                 instance, log, cons, yielded>>

\* promoteEphemeralIp: getInstance returns; on success createStaticIp is sent.
GetInstanceReturns ==
  /\ ServerStep
  /\ cont = "getInstance"
  /\ \E outcome \in Outcomes :
       \/ /\ outcome = "ok"
          /\ cont' = "createStaticIp"
          /\ log' = Append(log, "createStaticIp")
          /\ StreamUnchanged
          /\ UNCHANGED <<readiness, poll, polls>>
       \/ /\ outcome # "ok"
          /\ CatchHandler("getInstanceError")
          /\ UNCHANGED log
  /\ UNCHANGED <<origin, creation, hasIp, managementApi, del, replies, thrown, staticIp,
                 instance, cons, yielded>>

\* RestApiClient.createStaticIp: the POST returns; on success the region wait
\* is sent.
CreateStaticIpReturns ==
  /\ ServerStep
  /\ cont = "createStaticIp"
  /\ \E outcome \in Outcomes :
       \/ /\ outcome = "ok"
          /\ cont' = "regionWait"
          /\ StreamUnchanged
          /\ UNCHANGED <<readiness, poll, polls>>
       \/ /\ outcome # "ok"
          /\ CatchHandler("createStaticIpError")
  /\ UNCHANGED <<origin, creation, hasIp, managementApi, del, replies, thrown, staticIp,
                 instance, log, cons, yielded>>

\* computeEngineOperationRegionWait returns the operation; promoteEphemeralIp
\* throws ServerInstallFailedError when it carries errors.
RegionWaitResult(outcome, operationErrors) ==
  /\ cont = "regionWait"
  /\ \/ /\ outcome = "ok" /\ ~operationErrors
        /\ staticIp' = TRUE
        /\ ThenFinish
     \/ /\ outcome = "ok" /\ operationErrors
        /\ UNCHANGED staticIp
        /\ CatchHandler("operationErrors")
     \/ /\ outcome # "ok" /\ ~operationErrors
        /\ staticIp' \in BOOLEAN
        /\ CatchHandler("regionWaitError")
  /\ UNCHANGED <<origin, creation, hasIp, managementApi, del, replies, thrown,
                 instance, log, cons, yielded>>

RegionWaitReturns ==
  /\ ServerStep
  /\ \E outcome \in Outcomes, operationErrors \in BOOLEAN :
       RegionWaitResult(outcome, operationErrors)

----------------------------------------------------------------------------
\* One iteration of the while loop of pollInstallState on the attributes
\* `attrs`, from the return of getOutlineGuestAttributes to the sleep (or the
\* break). A setInstallState on a closed stream throws out of the loop.
PollIteration(attrs) ==
  /\ poll = "fetching"
  /\ LET t == PollTransition(attrs)
     IN /\ managementApi' = (managementApi \/ t.publish)
        /\ \/ /\ t.write = "none"
              /\ StreamUnchanged
              /\ poll' = "sleeping"
           \/ /\ t.write # "none" /\ isClosed
              /\ setInstallStateThrows
              /\ poll' = "crashed"
           \/ /\ t.write # "none" /\ ~isClosed
              /\ setInstallState(t.write)
              /\ poll' = IF t.stop THEN "done" ELSE "sleeping"
  /\ UNCHANGED <<origin, creation, hasIp, cont, readiness, polls, del, replies, thrown, staticIp,
                 instance, log, cons, yielded>>

\* The guest-attribute fetch returns `outcome` (with the attributes published
\* at that moment when it succeeds) and the loop iterates on what
\* getOutlineGuestAttributes makes of it.
FetchReturns(outcome, attrs) ==
  /\ outcome # "ok" => attrs = {}
  /\ PollIteration(GuestAttributesResult(outcome, attrs))

PollEvaluate ==
  /\ ServerStep
  /\ \E outcome \in Outcomes, attrs \in Snapshots :
       FetchReturns(outcome, attrs)

\* A poll loop that never looks at the stream.
PollLoopBlind == TRUE

\* The while condition of pollInstallState.
PollLoopContinues == ~isClosed

\* The sleep ends and the while condition is evaluated: the loop exits on a
\* closed stream, else the next fetch is issued.
PollSleepEnds ==
  /\ ServerStep
  /\ poll = "sleeping"
  /\ \/ /\ ~PollLoopContinues
        /\ poll' = "done"
        /\ UNCHANGED polls
     \/ /\ PollLoopContinues
        /\ polls < MaxPolls
        /\ poll' = "fetching"
        /\ polls' = polls + 1
  /\ StreamUnchanged
  /\ UNCHANGED <<origin, creation, hasIp, cont, readiness,
                 managementApi, del, replies, thrown, staticIp, instance, log, cons, yielded>>

\* The same, for the fetches past MaxPolls, which are not counted: the loop
\* has no bound of its own.
PollSleepEndsUncounted ==
  /\ ServerStep
  /\ poll = "sleeping"
  /\ PollLoopContinues
  /\ polls = MaxPolls
  /\ poll' = "fetching"
  /\ StreamUnchanged
  /\ UNCHANGED <<origin, creation, hasIp, cont, readiness, polls,
                 managementApi, del, replies, thrown, staticIp, instance, log, cons, yielded>>

----------------------------------------------------------------------------
\* onDelete that cancels nothing.
onDeleteNoCancel == StreamUnchanged

\* onDelete without the isClosed test.
onDeleteUnguarded ==
  IF isClosed THEN setInstallStateThrows ELSE setInstallState("CANCELED")

\* YandexServer.onDelete, the deleteCallback of the host.
onDelete ==
  IF ~isClosed THEN setInstallState("CANCELED") ELSE StreamUnchanged

\* delete() that goes on only when instanceReadiness resolved.
ReadinessResolved == readiness.status = "resolved"

\* delete() that does not wait for instanceReadiness.
ReadinessNotAwaited == TRUE

\* `await this.instanceReadiness` in delete(): settled, either way.
ReadinessAwaited == readiness.status # "pending"

\* waitForDelete that treats a 404 as any other error.
waitForDeleteStrict(outcome) == outcome = "ok"

\* waitForDelete that swallows every error.
waitForDeleteSwallowsAll(outcome) == TRUE

\* waitForDelete: success and 404 let delete() go on, anything else is thrown.
waitForDelete(outcome) == outcome = "ok" \/ is404(outcome)

\* The error a failed delete request rejects with.
RequestError(request, outcome) == [request |-> request, outcome |-> outcome]

NoThrow == RequestError("none", "none")

\* YandexHost.delete() up to `await this.instanceReadiness`.
DeleteStart(d) ==
  /\ ServerStep
  /\ del[d] = "idle"
  /\ HandleAvailable
  /\ onDelete
  /\ del' = [del EXCEPT ![d] = "awaitReadiness"]
  /\ UNCHANGED <<origin, creation, hasIp, cont, readiness, poll, polls,
                 managementApi, replies, thrown, staticIp, instance, log,
                 cons, yielded>>

\* delete() after the await: the static-address delete request is sent.
DeleteAfterReadiness(d) ==
  /\ ServerStep
  /\ del[d] = "awaitReadiness"
  /\ ReadinessAwaited
  /\ del' = [del EXCEPT ![d] = "deleteStaticIp"]
  /\ log' = Append(log, "deleteStaticIp")
  /\ StreamUnchanged
  /\ UNCHANGED <<origin, creation, hasIp, cont, readiness, poll, polls,
                 managementApi, replies, thrown, staticIp, instance,
                 cons, yielded>>

\* The static-address delete returns with `outcome`; on success or 404 the
\* instance delete request is sent, else delete() rejects with the error.
DeleteStaticIpResult(d, outcome) ==
  /\ del[d] = "deleteStaticIp"
  /\ outcome = "ok" => staticIp
  /\ outcome = "http404" => ~staticIp
  /\ staticIp' = IF outcome = "ok" THEN FALSE ELSE staticIp
  /\ replies' = [replies EXCEPT ![d] = Append(@, outcome)]
  /\ IF waitForDelete(outcome)
       THEN /\ del' = [del EXCEPT ![d] = "deleteInstance"]
            /\ log' = Append(log, "deleteInstance")
            /\ UNCHANGED thrown
       ELSE /\ del' = [del EXCEPT ![d] = "failed"]
            /\ thrown' = [thrown EXCEPT ![d] = RequestError("deleteStaticIp", outcome)]
            /\ UNCHANGED log
  /\ StreamUnchanged
  /\ UNCHANGED <<origin, creation, hasIp, cont, readiness, poll, polls,
                 managementApi, instance, cons, yielded>>

DeleteStaticIpReturns(d) ==
  /\ ServerStep
  /\ \E outcome \in Outcomes : DeleteStaticIpResult(d, outcome)

\* The instance delete returns with `outcome`: delete() returns on success or
\* 404, else it rejects with the error.
DeleteInstanceResult(d, outcome) ==
  /\ del[d] = "deleteInstance"
  /\ outcome = "ok" => instance
  /\ outcome = "http404" => ~instance
  /\ instance' = IF outcome = "ok" THEN FALSE ELSE instance
  /\ replies' = [replies EXCEPT ![d] = Append(@, outcome)]
  /\ IF waitForDelete(outcome)
       THEN /\ del' = [del EXCEPT ![d] = "done"]
            /\ UNCHANGED thrown
       ELSE /\ del' = [del EXCEPT ![d] = "failed"]
            /\ thrown' = [thrown EXCEPT ![d] = RequestError("deleteInstance", outcome)]
  /\ StreamUnchanged
  /\ UNCHANGED <<origin, creation, hasIp, cont, readiness, poll, polls,
                 managementApi, staticIp, log, cons, yielded>>

DeleteInstanceReturns(d) ==
  /\ ServerStep
  /\ \E outcome \in Outcomes : DeleteInstanceResult(d, outcome)

----------------------------------------------------------------------------
\* ValueStream.nextChange: resolved with true on a closed stream, else a
\* waker is registered.
nextChange == IF isClosed THEN "closed" ELSE "pending"

\* monitorInstallProgress that throws for no final state.
MonitorEndSilent(state) == "ended"

\* monitorInstallProgress after the watch() loop has ended.
MonitorEnd(state) ==
  IF state = "FAILED" THEN "ServerInstallFailedError"
  ELSE IF state = "CANCELED" THEN "ServerInstallCanceledError"
  ELSE "ended"

\* A monitorInstallProgress() that replays the install from its beginning.
MonitorStartReplays(c) ==
  /\ ServerStep
  /\ cons[c] = "idle"
  /\ HandleAvailable
  /\ cons' = [cons EXCEPT ![c] = "watching"]
  /\ wake' = [wake EXCEPT ![c] = nextChange]
  /\ yielded' = [yielded EXCEPT ![c] = <<getCompletionFraction("UNKNOWN")>>]
  /\ UNCHANGED <<origin, isValue, isClosed, creation, hasIp, cont, readiness,
                 poll, polls, managementApi, closedWrites, del, replies, thrown,
                 staticIp, instance, log>>

\* A consumer starts monitorInstallProgress(): first iteration of watch().
MonitorStart(c) ==
  /\ ServerStep
  /\ cons[c] = "idle"
  /\ HandleAvailable
  /\ cons' = [cons EXCEPT ![c] = "watching"]
  /\ wake' = [wake EXCEPT ![c] = nextChange]
  /\ yielded' = [yielded EXCEPT ![c] = <<getCompletionFraction(isValue)>>]
  /\ UNCHANGED <<origin, isValue, isClosed, creation, hasIp, cont, readiness,
                 poll, polls, managementApi, closedWrites, del, replies, thrown,
                 staticIp, instance, log>>

\* The consumer's waker has fired: the next iteration of watch(), or, once
\* woken with closed = true, the end of monitorInstallProgress.
MonitorResume(c) ==
  /\ ServerStep
  /\ cons[c] = "watching"
  /\ \/ /\ wake[c] = "open"
        /\ wake' = [wake EXCEPT ![c] = nextChange]
        /\ yielded' = [yielded EXCEPT ![c] = Append(@, getCompletionFraction(isValue))]
        /\ UNCHANGED cons
     \/ /\ wake[c] = "closed"
        /\ wake' = [wake EXCEPT ![c] = "none"]
        /\ cons' = [cons EXCEPT ![c] = MonitorEnd(isValue)]
        /\ yielded' = [yielded EXCEPT ![c] =
                         IF MonitorEnd(isValue) = "ended"
                           THEN Append(@, getCompletionFraction(isValue)) ELSE @]
  /\ UNCHANGED <<origin, isValue, isClosed, creation, hasIp, cont, readiness,
                 poll, polls, managementApi, closedWrites, del, replies, thrown,
                 staticIp, instance, log>>

----------------------------------------------------------------------------
\* RestApiSession.createInstance. Messages are sequences of characters.
UpperCase == <<"A","B","C","D","E","F","G","H","I","J","K","L","M","N","O","P","Q",
               "R","S","T","U","V","W","X","Y","Z">>
LowerCase == <<"a","b","c","d","e","f","g","h","i","j","k","l","m","n","o","p","q",
               "r","s","t","u","v","w","x","y","z">>

\* String.prototype.toLowerCase.
toLowerCase(str) ==
  [i \in DOMAIN str |->
     IF \E k \in DOMAIN UpperCase : UpperCase[k] = str[i]
       THEN LowerCase[CHOOSE k \in DOMAIN UpperCase : UpperCase[k] = str[i]]
       ELSE str[i]]

\* String.prototype.indexOf: the first position (from 0) of sub in str, or -1.
indexOf(str, sub) ==
  LET hits == {i \in 1..(Len(str) - Len(sub) + 1) :
                 SubSeq(str, i, i + Len(sub) - 1) = sub}
  IN IF hits = {} THEN -1
     ELSE (CHOOSE i \in hits : \A j \in hits : i <= j) - 1

finalizing == <<"f","i","n","a","l","i","z","i","n","g">>

MAX_REQUESTS     == 10
RETRY_TIMEOUT_MS == 5000

\* The messages the platform sends with a failed creation request.
PlatformMessages ==
  { <<"i","s"," ">> \o finalizing,
    <<"F","i","n","a","l","i","z","i","n","g">>,
    <<"F","I","N","A","L","I","Z","I","N","G","!">>,
    <<"f","i","n","a","l","i","z","e","d">>,
    <<"b","u","s","y">> }

\* RestApiSession.request: what a failed request rejects with. A 401 and a
\* transport failure give XhrError (no message); another status gives Error
\* with the platform's message. `request` is the number of the request.
RequestErrors(n) ==
  {[kind |-> "XhrError", message |-> <<>>, request |-> n]}
    \cup {[kind |-> "Error", message |-> m, request |-> n] : m \in PlatformMessages}

NoError == [kind |-> "none", message |-> <<>>, request |-> 0]

\* The retry test with <= for <.
ShouldRetryOneMore(e, count) ==
  indexOf(toLowerCase(e.message), finalizing) >= 0 /\ count <= MAX_REQUESTS

\* The retry test without the test of the message.
ShouldRetryAnyError(e, count) == count < MAX_REQUESTS

\* The condition of the .catch of makeRequestRecursive.
ShouldRetry(e, count) ==
  indexOf(toLowerCase(e.message), finalizing) >= 0 /\ count < MAX_REQUESTS

CreateStep == UNCHANGED <<serverVars, authVars, waitVars, requestVars, urlVars, accountVars>>

\* The ids the platform gives to a registered key.
KeyIds == {1, 2}

\* A creation request that names no key.
ssh_keysEmpty == <<>>

\* `ssh_keys: [keyId]` of the creation request, keyId being the argument of
\* makeCreateInstanceRequest.
ssh_keys == <<keyId'>>

\* makeRequestRecursive: ++requestCount and the creation request is sent.
makeRequestRecursive ==
  /\ requestCount' = requestCount + 1
  /\ sshKeys' = Append(sshKeys, ssh_keys)
  /\ sent' = sent + 1
  /\ sentAt' = clock'
  /\ cPc' = "requesting"

\* createInstance is called: registerKey_ sends the key registration.
CreateInstanceCalled ==
  /\ CreateStep
  /\ cPc = "idle"
  /\ cPc' = "registering"
  /\ keyRegs' = keyRegs + 1
  /\ UNCHANGED <<requestCount, keyId, sshKeys, clock, sent, sentAt, retries,
                 failedAt, lastError, cResult>>

\* The key registration returns: makeCreateInstanceRequest starts, or the
\* promise is rejected with the registration error.
RegisterKeyReturns ==
  /\ CreateStep
  /\ cPc = "registering"
  /\ \E latency \in 0..MaxLatency :
       /\ clock' = clock + latency
       /\ \/ /\ keyId' \in KeyIds
             /\ makeRequestRecursive
             /\ UNCHANGED cResult
          \/ /\ \E e \in RequestErrors(0) :
                  cResult' = [kind |-> "rejected", error |-> e]
             /\ cPc' = "rejected"
             /\ UNCHANGED <<requestCount, keyId, sshKeys, sent, sentAt>>
  /\ UNCHANGED <<keyRegs, retries, failedAt, lastError>>

\* A creation request returns: fulfill, retry after RETRY_TIMEOUT_MS, or reject.
CreateRequestReturns ==
  /\ CreateStep
  /\ cPc = "requesting"
  /\ \E latency \in 0..MaxLatency :
       /\ clock' = clock + latency
       /\ \/ /\ cPc' = "fulfilled"
             /\ cResult' = [kind |-> "fulfilled", response |-> sent]
             /\ UNCHANGED <<retries, failedAt, lastError>>
          \/ \E e \in RequestErrors(sent) :
               /\ lastError' = e
               /\ IF ShouldRetry(e, requestCount)
                    THEN /\ cPc' = "waiting"
                         /\ retries' = retries + 1
                         /\ failedAt' = clock'
                         /\ UNCHANGED cResult
                    ELSE /\ cPc' = "rejected"
                         /\ cResult' = [kind |-> "rejected", error |-> e]
                         /\ UNCHANGED <<retries, failedAt>>
  /\ UNCHANGED <<requestCount, keyRegs, keyId, sshKeys, sent, sentAt>>

\* The timer set by setTimeout(makeRequestRecursive, RETRY_TIMEOUT_MS) fires.
RetryTimerFires ==
  /\ CreateStep
  /\ cPc = "waiting"
  /\ clock' = failedAt + RETRY_TIMEOUT_MS
  /\ UNCHANGED keyId
  /\ makeRequestRecursive
  /\ UNCHANGED <<keyRegs, retries, failedAt, lastError, cResult>>

----------------------------------------------------------------------------
\* RestApiClient.fetchAuthenticated and the access token.
AuthStep == UNCHANGED <<serverVars, createVars, waitVars, requestVars, urlVars, accountVars>>

\* A client that asks the token endpoint once and never again.
TokenAbsentOnce == accessToken = 0 /\ tokenRequests = 0

\* `!this.accessToken`
TokenAbsent == accessToken = 0

\* fetchAuthenticated is called: with no token held the token endpoint is
\* asked (refreshYandexAccessToken), else the API request is sent with the
\* token held.
FetchAuthenticatedCalled(c) ==
  /\ AuthStep
  /\ aPc[c] = "idle"
  /\ IF TokenAbsent
       THEN /\ tokenRequests' = tokenRequests + 1
            /\ aPc' = [aPc EXCEPT ![c] = "refreshing"]
            /\ UNCHANGED bearer
       ELSE /\ bearer' = [bearer EXCEPT ![c] = accessToken]
            /\ aPc' = [aPc EXCEPT ![c] = "calling"]
            /\ UNCHANGED tokenRequests
  /\ UNCHANGED <<accessToken, tokenWrites>>

\* The token endpoint answers: the token is stored and the API request is
\* sent with it, or the error of the refresh is thrown to the caller.
RefreshReturns(c) ==
  /\ AuthStep
  /\ aPc[c] = "refreshing"
  /\ \/ /\ accessToken' = tokenWrites + 1
        /\ tokenWrites' = tokenWrites + 1
        /\ bearer' = [bearer EXCEPT ![c] = accessToken']
        /\ aPc' = [aPc EXCEPT ![c] = "calling"]
     \/ /\ aPc' = [aPc EXCEPT ![c] = "failed"]
        /\ UNCHANGED <<accessToken, tokenWrites, bearer>>
  /\ UNCHANGED tokenRequests

\* The API request returns.
ApiRequestReturns(c) ==
  /\ AuthStep
  /\ aPc[c] = "calling"
  /\ aPc' = [aPc EXCEPT ![c] = "done"]
  /\ UNCHANGED <<accessToken, bearer, tokenRequests, tokenWrites>>

----------------------------------------------------------------------------
\* RestApiClient, the operation waiter. An operation is the body of the
\* response of the wait endpoint: `error.errors` is absent (errorList FALSE)
\* or a list of {code, message}.
WaitStep == UNCHANGED <<serverVars, createVars, authVars, requestVars, urlVars, accountVars>>

Scopes == {"zone", "region", "global"}

ErrorCodes == {"QUOTA_EXCEEDED", "ZONE_RESOURCE_POOL_EXHAUSTED"}
ErrorMessages == {"quota exceeded", "zone exhausted"}
OperationErrors == [code : ErrorCodes, message : ErrorMessages]

ErrorLists(n) == UNION {[1..k -> OperationErrors] : k \in 0..n}

Operations ==
  {[errorList |-> FALSE, errors |-> <<>>]}
    \cup {[errorList |-> TRUE, errors |-> l] : l \in ErrorLists(MaxErrors)}

NoResult == [kind |-> "none", code |-> "none", message |-> "none"]

\* The wait call returns the operation it was given by the endpoint.
Returned == [kind |-> "returned", code |-> "none", message |-> "none"]

\* new GcpError(errors[0]?.code, errors[0]?.message)
GcpError(errors) ==
  IF errors = <<>>
    THEN [kind |-> "GcpError", code |-> "undefined", message |-> "undefined"]
    ELSE [kind |-> "GcpError", code |-> errors[1].code, message |-> errors[1].message]

\* The error fetchAuthenticated rejects with.
WaitHttpError == [kind |-> "HttpError", code |-> "none", message |-> "none"]

\* computeEngineOperationZoneWait, after the response: `operation.error?.errors`
\* is truthy for every list, the empty one included.
computeEngineOperationZoneWait(operation) ==
  IF operation.errorList THEN GcpError(operation.errors) ELSE Returned

\* computeEngineOperationRegionWait returns the promise of fetchAuthenticated.
computeEngineOperationRegionWait(operation) == Returned

\* computeEngineOperationGlobalWait returns the promise of fetchAuthenticated.
computeEngineOperationGlobalWait(operation) == Returned

\* A wait call is made: the request is sent to the wait endpoint of the scope.
WaitCalled ==
  /\ WaitStep
  /\ wPc = "idle"
  /\ wPc' = "waiting"
  /\ UNCHANGED <<wScope, wOperation, wResult>>

\* The wait endpoint answers with the operation, or the request fails.
WaitReturns ==
  /\ WaitStep
  /\ wPc = "waiting"
  /\ wPc' = "done"
  /\ \E outcome \in {"ok", "error"} :
       wResult' =
         IF outcome # "ok" THEN WaitHttpError
         ELSE CASE wScope = "zone"   -> computeEngineOperationZoneWait(wOperation)
                [] wScope = "region" -> computeEngineOperationRegionWait(wOperation)
                [] wScope = "global" -> computeEngineOperationGlobalWait(wOperation)
  /\ UNCHANGED <<wScope, wOperation>>

WaitIdle ==
  /\ wScope = "zone"
  /\ wOperation = [errorList |-> FALSE, errors |-> <<>>]
  /\ wPc = "idle"
  /\ wResult = NoResult

----------------------------------------------------------------------------
\* The two request executors: RestApiClient.fetchUnauthenticated (fetch) and
\* RestApiSession.request (XMLHttpRequest), from the response to the
\* settlement of the promise they return.
RequestStep == UNCHANGED <<serverVars, createVars, authVars, waitVars, urlVars,
                          accountVars>>

Executors == {"fetchUnauthenticated", "request"}
Statuses  == {200, 204, 299, 300, 401, 404, 500}
Bodies    == {"json", "malformed", "empty"}

StatusText(status) ==
  CASE status = 200 -> "OK"
    [] status = 204 -> "No Content"
    [] status = 299 -> "Miscellaneous"
    [] status = 300 -> "Multiple Choices"
    [] status = 401 -> "Unauthorized"
    [] status = 404 -> "Not Found"
    [] status = 500 -> "Internal Server Error"

\* The connection failed: no response.
NetworkFailure == [status |-> 0, statusText |-> "", body |-> "empty"]

\* A 204 response has no body.
Responses ==
  {[status |-> st, statusText |-> StatusText(st), body |-> b] :
     st \in Statuses \ {204}, b \in Bodies}
    \cup {[status |-> 204, statusText |-> StatusText(204), body |-> "empty"]}
    \cup {NetworkFailure}

\* Response.ok, and the test of xhr.onload.
ok(response) == response.status >= 200 /\ response.status <= 299

Resolved(value) == [kind |-> "resolved", value |-> value]

\* new HttpError(response.status, response.statusText)
HttpError(statusCode, message) ==
  [kind |-> "HttpError", statusCode |-> statusCode, message |-> message]

\* new Error(message)
PlainError(message) == [kind |-> "Error", message |-> message]

\* new XhrError(): no argument.
XhrError == [kind |-> "XhrError"]

\* fetch() rejects on a network failure.
FetchFailed == [kind |-> "TypeError"]

\* The handler threw before resolve or reject: the promise stays pending.
Unsettled == [kind |-> "unsettled"]

\* fetchUnauthenticated, from the return of fetch(). response.json() fails
\* on an empty body as on a malformed one.
fetchUnauthenticated(response) ==
  IF response = NetworkFailure THEN FetchFailed
  ELSE IF ~ok(response)
    THEN HttpError(response.status, response.statusText)
  ELSE IF response.status # 204
    THEN IF response.body = "json"
           THEN Resolved("parsed")
           ELSE PlainError(<<"Error parsing response body">>)
  ELSE Resolved("undefined")

\* RestApiSession.request, xhr.onload and xhr.onerror. JSON.parse throws
\* inside onload on a body that is not JSON (the empty one included, which
\* the 2xx branch does not parse).
request(response) ==
  IF response = NetworkFailure THEN XhrError
  ELSE IF ok(response)
    THEN CASE response.body = "empty"     -> Resolved("emptyObject")
           [] response.body = "json"      -> Resolved("parsed")
           [] response.body = "malformed" -> Unsettled
  ELSE IF response.status = 401 THEN XhrError
  ELSE IF response.body = "json"
    THEN PlainError(<<"XHR failed with", response.status, "message of the body">>)
    ELSE Unsettled

\* The request is sent.
RequestSent ==
  /\ RequestStep
  /\ xPc = "idle"
  /\ xPc' = "sent"
  /\ UNCHANGED <<xExecutor, xResponse, xResult>>

\* The response (or the failure of the connection) arrives.
ResponseArrives ==
  /\ RequestStep
  /\ xPc = "sent"
  /\ xResult' = IF xExecutor = "request"
                  THEN request(xResponse)
                  ELSE fetchUnauthenticated(xResponse)
  /\ xPc' = IF xResult' = Unsettled THEN "pending" ELSE "settled"
  /\ UNCHANGED <<xExecutor, xResponse>>

RequestIdle ==
  /\ xExecutor = "fetchUnauthenticated"
  /\ xResponse = NetworkFailure
  /\ xPc = "idle"
  /\ xResult = [kind |-> "none"]

----------------------------------------------------------------------------
\* parseZoneUrl. A URL is absolute or not (new URL throws on one that is
\* not) and has a path, given by its segments: pathname is "/" followed by
\* the segments joined by "/", so an empty segment stands for "//" or for a
\* trailing "/".
UrlStep == UNCHANGED <<serverVars, createVars, authVars, waitVars, requestVars,
                      accountVars>>

PathPrefixes == {<<>>, <<"api">>}
PathSuffixes == {<<>>, <<"instances">>, <<"">>}
PathCores ==
  {<<c, "v1", p, projectId, z, zoneId>> :
     c \in {"compute", "computer"}, p \in {"projects", "project"},
     projectId \in {"p1", "p 1", ""}, z \in {"zones", "regions"},
     zoneId \in {"ru-central1-a", "ru-central1-b", ""}}
Urls ==
  {[absolute |-> a, path |-> pre \o core \o suf] :
     a \in BOOLEAN, pre \in PathPrefixes, core \in PathCores, suf \in PathSuffixes}

\* URL.pathname percent-encodes a space.
EncodeSegment(segment) == IF segment = "p 1" THEN "p%201" ELSE segment
pathname(url) == [i \in DOMAIN url.path |-> EncodeSegment(url.path[i])]

\* String.match(zoneUrlRegExp): the pattern starts at a "/" and is anchored
\* at the end, and [^/]+ is one segment that is not empty. The value is the
\* named groups of the match, or null.
Null == [kind |-> "null"]
zoneUrlRegExp(path) ==
  LET n == Len(path)
  IN IF /\ n >= 6
        /\ SubSeq(path, n - 5, n - 3) = <<"compute", "v1", "projects">>
        /\ path[n - 2] # ""
        /\ path[n - 1] = "zones"
        /\ path[n] # ""
       THEN [kind |-> "groups", projectId |-> path[n - 2], zoneId |-> path[n]]
       ELSE Null

\* `.groups` of null.
TypeError(message) == [kind |-> "TypeError", message |-> message]

parseZoneUrl(url) ==
  IF ~url.absolute THEN TypeError("Invalid URL")
  ELSE LET groups == zoneUrlRegExp(pathname(url))
       IN IF groups = Null
            THEN TypeError("Cannot read properties of null")
            ELSE [kind |-> "ZoneLocator",
                  projectId |-> groups.projectId, zoneId |-> groups.zoneId]

ParseZoneUrlCalled ==
  /\ UrlStep
  /\ zPc = "idle"
  /\ zPc' = "done"
  /\ zResult' = parseZoneUrl(zUrl)
  /\ UNCHANGED zUrl

UrlIdle ==
  /\ zUrl = [absolute |-> TRUE, path |-> <<>>]
  /\ zPc = "idle"
  /\ zResult = [kind |-> "none"]

----------------------------------------------------------------------------
\* YandexAccount.createServer, from the create-instance request on. The
\* YandexServer it constructs is the server of the first section, in the
\* state after its constructor; the zone wait it starts is the wait call of
\* the waiter section.
ServerInstallFailedError == [kind |-> "ServerInstallFailedError"]
CreateInstanceRejected   == [kind |-> "HttpError"]
ServerHandle             == [kind |-> "YandexServer"]

\* A createServer that does not look at the operation.
CreateInstanceFailedNever(operation) == FALSE

\* `if (errors)`, errors being createInstanceOperation.error?.errors: true
\* for every list, the empty one included.
CreateInstanceFailed(operation) == operation.errorList

\* createServer is called: the create-instance request is sent and awaited.
CreateServerCalled ==
  /\ csPc = "idle"
  /\ csPc' = "createInstance"
  /\ UNCHANGED <<csOperation, csResult>>
  /\ UNCHANGED <<serverVars, createVars, authVars, waitVars, requestVars, urlVars>>

\* The create-instance request returns: createServer rejects with its error,
\* throws on an operation with an error list, or starts the zone wait and
\* returns the server constructed on its promise.
CreateInstanceReturns ==
  /\ csPc = "createInstance"
  /\ \E outcome \in {"ok", "error"} :
       \/ /\ outcome = "error"
          /\ csPc' = "threw"
          /\ csResult' = CreateInstanceRejected
          /\ UNCHANGED waitVars
       \/ /\ outcome = "ok" /\ CreateInstanceFailed(csOperation)
          /\ csPc' = "threw"
          /\ csResult' = ServerInstallFailedError
          /\ UNCHANGED waitVars
       \/ /\ outcome = "ok" /\ ~CreateInstanceFailed(csOperation)
          /\ wPc = "idle" /\ wScope = "zone"
          /\ wPc' = "waiting"
          /\ csPc' = "returned"
          /\ csResult' = ServerHandle
          /\ UNCHANGED <<wScope, wOperation, wResult>>
  /\ UNCHANGED csOperation
  /\ UNCHANGED <<serverVars, createVars, authVars, requestVars, urlVars>>

AccountIdle ==
  /\ csPc = "idle"
  /\ csOperation = [errorList |-> FALSE, errors |-> <<>>]
  /\ csResult = [kind |-> "none"]

----------------------------------------------------------------------------
CreateIdle ==
  /\ cPc = "idle" /\ requestCount = 0 /\ keyRegs = 0 /\ clock = 0
  /\ keyId = 0 /\ sshKeys = <<>>
  /\ sent = 0 /\ sentAt = 0 /\ retries = 0 /\ failedAt = 0
  /\ lastError = NoError /\ cResult = [kind |-> "none"]

AuthIdle ==
  /\ accessToken = 0
  /\ aPc = [c \in Callers |-> "idle"]
  /\ bearer = [c \in Callers |-> 0]
  /\ tokenRequests = 0
  /\ tokenWrites = 0

\* The state after the constructor of YandexServer: createServer passes the
\* pending zone wait, listServers a resolved promise; the static address of
\* the server's name may exist already.
ServerInit ==
  /\ origin \in {"createServer", "listServers"}
  /\ isValue = "UNKNOWN"
  /\ isClosed = FALSE
  /\ wake = [c \in Consumers |-> "none"]
  /\ creation = IF origin = "listServers" THEN "resolved" ELSE "pending"
  /\ hasIp = "pending"
  /\ cont = "waitCreation"
  /\ readiness = [status |-> "pending", error |-> "none"]
  /\ poll = "notStarted"
  /\ polls = 0
  /\ managementApi = FALSE
  /\ closedWrites = 0
  /\ del = [d \in Deletes |-> "idle"]
  /\ replies = [d \in Deletes |-> <<>>]
  /\ thrown = [d \in Deletes |-> NoThrow]
  /\ staticIp \in BOOLEAN
  /\ instance = (origin = "listServers")
  /\ log = <<>>
  /\ cons = [c \in Consumers |-> "idle"]
  /\ yielded = [c \in Consumers |-> <<>>]

Init == ServerInit /\ CreateIdle /\ AuthIdle /\ WaitIdle /\ RequestIdle /\ UrlIdle
          /\ AccountIdle

\* The server with its host handle: provisioning and teardown.
Next ==
  \/ InstanceCreationResolves
  \/ InstanceCreationRejects
  \/ HasStaticIpSettles
  \/ AfterHasStaticIp
  \/ GetInstanceReturns
  \/ CreateStaticIpReturns
  \/ RegionWaitReturns
  \/ PollEvaluate
  \/ PollSleepEnds
  \/ \E d \in Deletes : DeleteStart(d)
  \/ \E d \in Deletes : DeleteAfterReadiness(d)
  \/ \E d \in Deletes : DeleteStaticIpReturns(d)
  \/ \E d \in Deletes : DeleteInstanceReturns(d)

Spec == Init /\ [][Next]_vars

\* The server with a consumer of its progress stream. Of delete() only the
\* cancellation matters to the stream (the requests that follow it do not
\* touch the install state), and a second delete() finds the stream closed.
\* Consumers have each their own waker and write nothing the server or
\* another consumer reads, so one of them is followed.
NextProgress ==
  \/ InstanceCreationResolves
  \/ InstanceCreationRejects
  \/ HasStaticIpSettles
  \/ AfterHasStaticIp
  \/ GetInstanceReturns
  \/ CreateStaticIpReturns
  \/ RegionWaitReturns
  \/ PollEvaluate
  \/ PollSleepEnds
  \/ DeleteStart(1)
  \/ MonitorStart(1)
  \/ MonitorResume(1)

SpecProgress == Init /\ [][NextProgress]_vars

\* The same with two consumers on one server. The consumers being
\* interchangeable, consumer 1 is the one that starts first.
NextDrain ==
  \/ NextProgress
  \/ (cons[1] # "idle" /\ MonitorStart(2))
  \/ MonitorResume(2)

SpecDrain == Init /\ [][NextDrain]_vars

\* Every network call returns and every sleep ends: each step of the
\* provisioning that is waiting for one is eventually taken.
ProvisioningFairness ==
  /\ WF_vars(InstanceCreationResolves \/ InstanceCreationRejects)
  /\ WF_vars(HasStaticIpSettles)
  /\ WF_vars(AfterHasStaticIp)
  /\ WF_vars(GetInstanceReturns)
  /\ WF_vars(CreateStaticIpReturns)
  /\ WF_vars(RegionWaitReturns)
  /\ WF_vars(PollEvaluate)
  /\ WF_vars(PollSleepEnds)

\* The server and its host under that assumption, with a poll loop that goes
\* on as long as the code lets it; delete() is called or not.
NextLive == Next \/ PollSleepEndsUncounted

SpecLive ==
  /\ Init /\ [][NextLive]_vars
  /\ ProvisioningFairness
  /\ WF_vars(PollSleepEndsUncounted)

\* The server and the consumer of its progress stream under that assumption;
\* a consumer whose waker has fired is eventually resumed.
SpecWatch ==
  /\ Init /\ [][NextProgress]_vars
  /\ ProvisioningFairness
  /\ WF_vars(MonitorResume(1))

----------------------------------------------------------------------------
\* Claims about the installation state machine.

\* The progression UNKNOWN < ... < COMPLETED of the enum.
Progression == {"UNKNOWN", "INSTANCE_CREATED", "IP_ALLOCATED", "INSTANCE_RUNNING",
                "CERTIFICATE_CREATED", "COMPLETED"}

\* A delete() call has passed its cancellation callback in this step.
DeleteSignalled == \E d \in Deletes : del[d] = "idle" /\ del'[d] # "idle"

\* A consumer of the progress sequence has reached its end.
Drained(c) == cons[c] \in {"ended", "ServerInstallFailedError", "ServerInstallCanceledError"}

\* C1: the install state never moves from a later state of the progression
\* UNKNOWN < INSTANCE_CREATED < IP_ALLOCATED < INSTANCE_RUNNING <
\* CERTIFICATE_CREATED < COMPLETED to an earlier one, whatever the polls see.
C1_NonDecreasing ==
  [][(isValue \in Progression /\ isValue' \in Progression)
       => InstallState[isValue'] >= InstallState[isValue]]_vars

\* C2: once the install state is COMPLETED, FAILED or CANCELED it never
\* changes and no write to it is attempted any more.
C2_TerminalNoWrite ==
  [][isFinal(isValue) => (isValue' = isValue /\ closedWrites' = closedWrites)]_vars

\* C3: delete() on a non-terminal state makes the state CANCELED, it stays
\* CANCELED, and a consumer that drains the progress sequence of the canceled
\* server ends with ServerInstallCanceledError.
C3_DeleteCancels ==
  /\ [][(DeleteSignalled /\ ~isFinal(isValue)) => isValue' = "CANCELED"]_vars
  /\ [][isValue = "CANCELED" => isValue' = "CANCELED"]_vars
  /\ [](\A c \in Consumers :
          (Drained(c) /\ isValue = "CANCELED") => cons[c] = "ServerInstallCanceledError")

C3_Witness ==
  \E c \in Consumers :
    cons[c] = "ServerInstallCanceledError" /\ del[1] # "idle" /\ Len(yielded[c]) >= 2

\* C4: delete() on a terminal state (COMPLETED or FAILED) changes nothing in
\* the install state, and the progress sequence of a COMPLETED server ends
\* without error.
C4_DeleteAfterTerminal ==
  /\ [][(DeleteSignalled /\ isValue \in {"COMPLETED", "FAILED"})
          => UNCHANGED <<isValue, isClosed, wake, closedWrites>>]_vars
  /\ [](\A c \in Consumers : (Drained(c) /\ isValue = "COMPLETED") => cons[c] = "ended")

C4_Witness ==
  \E c \in Consumers : cons[c] = "ended" /\ del[1] # "idle" /\ isValue = "COMPLETED"

\* C5: the static-address and instance delete requests are sent only after the
\* creation wait and any promotion of this server have finished, no
\* static-address creation request follows the static-address delete request,
\* and when delete() has returned successfully neither resource remains.
C5_DeleteAfterCreation ==
  /\ \A d \in Deletes :
       del[d] \in {"deleteStaticIp", "deleteInstance", "done", "failed"}
         => (creation # "pending" /\ cont = "settled" /\ readiness.status # "pending")
  /\ \A i, j \in DOMAIN log :
       (log[i] = "deleteStaticIp" /\ log[j] = "createStaticIp") => j < i
  /\ \A d \in Deletes : del[d] = "done" => (~instance /\ ~staticIp)

\* delete() was called during the promotion, after the creation request for
\* the static address: it returned only after both deletions.
C5_Witness ==
  \E d \in Deletes :
    /\ del[d] = "done"
    /\ isValue = "CANCELED"
    /\ poll = "notStarted"
    /\ log = <<"createStaticIp", "deleteStaticIp", "deleteInstance">>

\* The priority table of one poll: the state set, whether the management API
\* is published, and whether polling goes on.
C8_Table(attrs) ==
  IF {"apiUrl", "certSha256"} \subseteq attrs THEN <<"COMPLETED", TRUE, "done">>
  ELSE IF "install-error" \in attrs THEN <<"FAILED", FALSE, "done">>
  ELSE IF "certSha256" \in attrs THEN <<"CERTIFICATE_CREATED", FALSE, "sleeping">>
  ELSE IF "install-started" \in attrs THEN <<"INSTANCE_RUNNING", FALSE, "sleeping">>
  ELSE <<"unchanged", FALSE, "sleeping">>

\* C8: a poll that evaluates a snapshot on the open state machine takes the
\* transition of the priority table: apiUrl and certSha256 -> publish the
\* management API, COMPLETED, stop; else install-error -> FAILED, stop; else
\* certSha256 -> CERTIFICATE_CREATED, go on; else install-started ->
\* INSTANCE_RUNNING, go on; else no transition, go on.
C8_PriorityTable ==
  [][\A attrs \in Snapshots :
       (PollIteration(attrs) /\ ~isClosed) =>
         LET row == C8_Table(attrs)
         IN /\ isValue' = IF row[1] = "unchanged" THEN isValue ELSE row[1]
            /\ managementApi' = (managementApi \/ row[2])
            /\ poll' = row[3]]_vars

\* Three polls have run and the last one completed the install.
C8_Witness ==
  isValue = "COMPLETED" /\ managementApi /\ poll = "done" /\ polls = 3

\* C9 as stated: a snapshot with install-error, evaluated on a non-terminal
\* state, makes the state FAILED whatever else it holds.
C9_ErrorAlwaysFails ==
  [][\A attrs \in Snapshots :
       (PollIteration(attrs) /\ ~isFinal(isValue) /\ "install-error" \in attrs)
         => isValue' = "FAILED"]_vars

\* C9, amended: a snapshot with install-error, evaluated on a non-terminal
\* state, makes the state FAILED unless it holds both apiUrl and certSha256
\* (then COMPLETED), whatever else it holds.
C9_ErrorFailsUnlessComplete ==
  [][\A attrs \in Snapshots :
       (PollIteration(attrs) /\ ~isFinal(isValue) /\ "install-error" \in attrs)
         => isValue' = IF {"apiUrl", "certSha256"} \subseteq attrs
                         THEN "COMPLETED" ELSE "FAILED"]_vars

\* The poll loop has stopped on a failure signalled by the guest.
C9_Witness ==
  isValue = "FAILED" /\ poll = "done" /\ ~managementApi

\* C11: a 404 to the static-address delete request, to the instance delete
\* request, or to both, counts as success: after a 404 to the first request
\* delete() sends the instance delete request, after a 404 to the second it
\* returns, and it never rejects because of a 404.
C11_NotFoundIsSuccess ==
  /\ [][\A d \in Deletes :
         DeleteStaticIpResult(d, "http404")
           => /\ del'[d] = "deleteInstance"
              /\ log' = Append(log, "deleteInstance")
              /\ thrown'[d] = NoThrow]_vars
  /\ [][\A d \in Deletes :
         DeleteInstanceResult(d, "http404")
           => (del'[d] = "done" /\ thrown'[d] = NoThrow)]_vars
  /\ [](\A d \in Deletes : thrown[d].outcome # "http404")

\* Neither resource existed: both requests got a 404 and delete() returned.
C11_Witness ==
  \E d \in Deletes : del[d] = "done" /\ replies[d] = <<"http404", "http404">>

\* C12: an error other than 404 from the static-address delete request or
\* from the instance delete request makes delete() reject with that error
\* (and no further request is sent); delete() rejects for no other reason,
\* in particular not because instanceReadiness rejected.
C12_OtherErrorPropagates ==
  /\ [][\A d \in Deletes :
         DeleteStaticIpResult(d, "error")
           => /\ del'[d] = "failed"
              /\ thrown'[d] = RequestError("deleteStaticIp", "error")
              /\ log' = log]_vars
  /\ [][\A d \in Deletes :
         DeleteInstanceResult(d, "error")
           => /\ del'[d] = "failed"
              /\ thrown'[d] = RequestError("deleteInstance", "error")]_vars
  /\ [](\A d \in Deletes :
          (del[d] = "failed" \/ thrown[d] # NoThrow)
            => /\ replies[d] # <<>>
               /\ replies[d][Len(replies[d])] = "error"
               /\ del[d] = "failed"
               /\ thrown[d].outcome = "error"
               /\ thrown[d].request \in {"deleteStaticIp", "deleteInstance"})

\* The setup had failed (instanceReadiness rejected); delete() went on and
\* rejected with the error of the instance delete request.
C12_Witness ==
  \E d \in Deletes :
    /\ del[d] = "failed"
    /\ readiness.status = "rejected"
    /\ thrown[d] = RequestError("deleteInstance", "error")

\* C13: the progress sequence of a consumer ends only when the install state
\* is terminal, and the way it ends tells the outcome: ServerInstallFailedError
\* for FAILED, ServerInstallCanceledError for CANCELED, a normal end (after
\* the fraction of COMPLETED, 100) for COMPLETED.
C13_OutcomeFromEnd ==
  \A c \in Consumers :
    Drained(c) =>
      /\ isFinal(isValue)
      /\ isValue = "FAILED" <=> cons[c] = "ServerInstallFailedError"
      /\ isValue = "CANCELED" <=> cons[c] = "ServerInstallCanceledError"
      /\ isValue = "COMPLETED" <=> cons[c] = "ended"
      /\ cons[c] = "ended" => yielded[c][Len(yielded[c])] = 100

\* A consumer that followed the install from the start saw it fail in the
\* poll loop.
C13_Witness ==
  \E c \in Consumers :
    /\ cons[c] = "ServerInstallFailedError"
    /\ poll = "done"
    /\ Len(yielded[c]) >= 4

\* C14 as stated: every provisioning run eventually reaches a terminal state,
\* whatever the polls see.
C14_AlwaysTerminates == <>isFinal(isValue)

\* C14, amended: every provisioning run either eventually reaches a terminal
\* state, which then never changes, or goes on fetching guest attributes for
\* ever on the open state machine (the poll loop has no deadline).
C14_TerminatesOrPolls ==
  /\ (<>[]isFinal(isValue)) \/ ([]<>(poll = "fetching" /\ ~isClosed))
  /\ [][isFinal(isValue) => isValue' = isValue]_vars

\* A run that polled more than once before the install completed.
C14_Witness ==
  isValue = "COMPLETED" /\ readiness.status = "resolved" /\ polls >= 2

\* C15: once the install state is terminal no consumer stays blocked: an
\* iteration of monitorInstallProgress() that is under way then, or that is
\* started later, comes to its end, and the last state it saw is the final one.
C15_ConsumersEnd ==
  /\ \A c \in Consumers :
       (isFinal(isValue) /\ cons[c] = "watching") ~> Drained(c)
  /\ [](\A c \in Consumers :
          Drained(c) =>
            \E i \in DOMAIN yielded[c] :
              /\ yielded[c][i] = getCompletionFraction(isValue)
              /\ i >= Len(yielded[c]) - 1)

\* A consumer that had started before the install was canceled has ended.
C15_Witness ==
  \E c \in Consumers :
    /\ Drained(c)
    /\ isValue = "CANCELED"
    /\ Len(yielded[c]) >= 3

\* The errors of the creation wait, the static-address pre-check and the
\* promotion.
ProvisioningErrors ==
  {"creationError", "staticIpCheckFailed", "getInstanceError",
   "createStaticIpError", "operationErrors", "regionWaitError"}

\* C16: when the creation wait rejects, or the static-address pre-check or the
\* promotion throws, the install state becomes FAILED and instanceReadiness
\* rejects with that error: a rejected instanceReadiness carries one of those
\* errors and the state is FAILED.
C16_FailureSetsFailed ==
  /\ readiness.status = "rejected"
       => (isValue = "FAILED" /\ readiness.error \in ProvisioningErrors)
  /\ (creation = "rejected" /\ cont = "settled")
       => (isValue = "FAILED" /\ readiness = Settled("creationError"))

\* C17: once delete() has canceled the install, the poll loop issues no
\* guest-attribute fetch any more: a fetch in flight may return, but no step
\* takes the loop to a new fetch, and a loop that had not begun never begins.
C17_NoFetchAfterCancel ==
  [][isValue = "CANCELED"
       => /\ polls' = polls
          /\ poll' = "fetching" => poll = "fetching"
          /\ poll = "notStarted" => poll' = "notStarted"]_vars

\* delete() came while the second fetch was in flight; the fetch returned, the
\* loop slept, saw the closed stream and ended.
C17_Witness ==
  isValue = "CANCELED" /\ poll = "done" /\ polls = 2 /\ closedWrites = 0

\* C18: the order of delete(): the cancellation has happened when delete()
\* first awaits; the static-address delete request is sent once
\* instanceReadiness has settled, resolved or rejected alike, and is the first
\* request of the call; the instance delete request is sent only after the
\* static-address delete request has returned.
C18_DeleteOrder ==
  /\ [][\A d \in Deletes :
         (del[d] = "idle" /\ del'[d] # "idle")
           => (del'[d] = "awaitReadiness" /\ isClosed' /\ log' = log)]_vars
  /\ [][\A d \in Deletes :
         (del[d] = "awaitReadiness" /\ readiness.status # "pending"
            /\ del'[d] # del[d])
           => (del'[d] = "deleteStaticIp" /\ log' = Append(log, "deleteStaticIp"))]_vars
  /\ [](\A d \in Deletes :
          (del[d] = "awaitReadiness" /\ readiness.status # "pending")
            => ENABLED DeleteAfterReadiness(d))
  /\ [](\A d \in Deletes :
          /\ del[d] \in {"idle", "awaitReadiness"} => replies[d] = <<>>
          /\ del[d] = "deleteStaticIp" => (replies[d] = <<>> /\ readiness.status # "pending")
          /\ del[d] = "deleteInstance" => Len(replies[d]) = 1
          /\ del[d] = "done" => Len(replies[d]) = 2)
  /\ [](\A j \in DOMAIN log :
          log[j] = "deleteInstance"
            => \E i \in 1..(j - 1) : log[i] = "deleteStaticIp")
  /\ [][log' # log /\ log'[Len(log')] = "deleteInstance"
         => \E d \in Deletes : Len(replies'[d]) = 1 /\ replies[d] = <<>>]_vars

\* The setup had failed; delete() still sent both requests, in order.
C18_Witness ==
  \E d \in Deletes :
    /\ del[d] = "done"
    /\ readiness.status = "rejected"
    /\ log = <<"deleteStaticIp", "deleteInstance">>

\* C20: the continuation of the creation wait and the poll loop are separate
\* phases. The first guest-attribute fetch is issued in the step that ends the
\* continuation, with the creation wait resolved and the state set to
\* IP_ALLOCATED; the continuation ends once, so one poll loop is started at
\* most; and a step that changes the install state belongs to one of the
\* continuation (before polling), the poll loop (after the continuation) and
\* the cancellation.
C20_PhasesExclusive ==
  /\ [](poll # "notStarted"
          => /\ cont = "settled"
             /\ creation = "resolved"
             /\ readiness = Settled("none")
             /\ polls >= 1)
  /\ [](poll = "notStarted" => polls = 0)
  /\ [][(poll = "notStarted" /\ poll' # "notStarted")
          => /\ poll' = "fetching" /\ polls' = 1
             /\ cont # "settled" /\ cont' = "settled"
             /\ isValue' = "IP_ALLOCATED"]_vars
  /\ [][cont = "settled" => cont' = "settled"]_vars
  /\ [][poll # "notStarted" => poll' # "notStarted"]_vars
  /\ [][isValue' # isValue
          => \/ cont # "settled" /\ poll = "notStarted" /\ ~DeleteSignalled
             \/ cont = "settled" /\ poll = "fetching" /\ ~DeleteSignalled
                  /\ UNCHANGED cont
             \/ DeleteSignalled /\ isValue' = "CANCELED"
                  /\ UNCHANGED <<cont, poll>>]_vars

\* The loop is in its second fetch; the first one saw the install started.
C20_Witness ==
  /\ poll = "fetching" /\ polls = 2
  /\ isValue = "INSTANCE_RUNNING"
  /\ cont = "settled"

\* The continuation leaves its wait for the pre-check in this step.
PreCheckAwaited == cont = "awaitHasStaticIp" /\ cont' # cont

C22_OtherErrorFails ==
  [][(FetchReturns("error", {}) /\ ~isClosed)
      => (isValue' = "FAILED" /\ poll' \in {"done", "crashed"})]_vars

\* C24: the first value a consumer receives is the fraction of the state that
\* is current when it starts, every later value is the fraction of the state
\* current when the value is delivered, every state set while the consumer
\* waits wakes it, and the sequence ends only on a terminal state. A consumer's
\* step changes neither the stream nor what another consumer has or will
\* receive.
C24_RestartFromCurrent ==
  /\ [][\A c \in Consumers :
          (cons[c] = "idle" /\ cons'[c] # "idle")
            => yielded'[c] = <<getCompletionFraction(isValue)>>]_vars
  /\ [][\A c \in Consumers :
          (cons[c] # "idle" /\ yielded'[c] # yielded[c])
            => yielded'[c] = Append(yielded[c], getCompletionFraction(isValue))]_vars
  /\ [][\A c \in Consumers :
          (wake[c] = "pending" /\ isValue' # isValue)
            => wake'[c] \in {"open", "closed"}]_vars
  /\ [](\A c \in Consumers : Drained(c) => isFinal(isValue))
  /\ [][\A c \in Consumers :
          Drained(c) => (cons'[c] = cons[c] /\ yielded'[c] = yielded[c])]_vars
  /\ [][\A c \in Consumers :
          (cons'[c] # cons[c] \/ yielded'[c] # yielded[c])
            => /\ isValue' = isValue /\ isClosed' = isClosed
               /\ \A d \in Consumers \ {c} :
                    /\ cons'[d] = cons[d]
                    /\ yielded'[d] = yielded[d]
                    /\ wake'[d] = wake[d]]_vars

\* Two consumers have drained one server: the first started before the
\* instance existed, the second when the instance was running.
C24_Witness ==
  /\ Drained(1) /\ Drained(2)
  /\ yielded[1][1] = 1
  /\ yielded[2][1] = 40
  /\ Len(yielded[1]) > Len(yielded[2])

\* C27: the management API handle is set only on a server whose state is
\* COMPLETED.
C27_HandleOnlyWhenCompleted == managementApi => isValue = "COMPLETED"

\* C28: when the creation wait returns with the operation still not done, the
\* state machine stays where it is: it does not enter INSTANCE_CREATED, does
\* not go on to the pre-check and the promotion, and goes on waiting for the
\* creation.
C28_CreatedOnlyWhenDone ==
  [][InstanceCreationResult(FALSE)
      => (isValue' = isValue /\ cont' = "waitCreation" /\ creation' = "pending")]_vars

\* C29: a delete() call sends its instance delete request only after its
\* static-address delete request succeeded or returned 404. When that request
\* failed otherwise the call has failed and sends nothing more: the cloud has
\* received as many instance delete requests as there are calls whose
\* static-address delete succeeded or returned 404.
C29_InstanceDeleteGated ==
  LET IsInstanceDelete(r) == r = "deleteInstance"
      Passed == {d \in Deletes :
                   replies[d] # <<>> /\ replies[d][1] \in {"ok", "http404"}}
  IN /\ \A d \in Deletes :
          /\ (del[d] \in {"deleteInstance", "done"} \/ Len(replies[d]) = 2)
               => d \in Passed
          /\ (replies[d] # <<>> /\ replies[d][1] = "error")
               => (del[d] = "failed" /\ replies[d] = <<"error">>)
     /\ Len(SelectSeq(log, IsInstanceDelete)) = Cardinality(Passed)

\* The static-address delete failed with a 500: delete() has failed and the
\* cloud has seen no instance delete.
C29_Witness ==
  \E d \in Deletes :
    /\ del[d] = "failed"
    /\ replies[d] = <<"error">>
    /\ thrown[d].request = "deleteStaticIp"
    /\ \A i \in DOMAIN log : log[i] # "deleteInstance"

\* C30: a delete() called after another delete() of the same host has
\* returned leaves the install state and the stream as they are, gets past its
\* wait for instanceReadiness, sends both delete requests again, and returns
\* without error when both are answered with 404.
C30_SecondDeleteIdempotent ==
  /\ [][\A d \in Deletes :
          ((\E e \in Deletes : del[e] = "done")
             /\ del[d] = "idle" /\ del'[d] # "idle")
            => /\ del'[d] = "awaitReadiness"
               /\ isFinal(isValue) /\ isClosed
               /\ isValue' = isValue /\ isClosed' = isClosed
               /\ wake' = wake /\ closedWrites' = closedWrites
               /\ readiness' = readiness]_vars
  /\ [](\A d \in Deletes :
          ((\E e \in Deletes : del[e] = "done") /\ del[d] = "awaitReadiness")
            => ENABLED DeleteAfterReadiness(d))
  /\ [](Len(SelectSeq(log, LAMBDA r : r = "deleteStaticIp"))
          = Cardinality({d \in Deletes : del[d] \notin {"idle", "awaitReadiness"}}))
  /\ [](\A d \in Deletes :
          del[d] = "done"
            => \E i, j \in DOMAIN log :
                 i < j /\ log[i] = "deleteStaticIp" /\ log[j] = "deleteInstance")
  /\ [](\A d \in Deletes :
          replies[d] = <<"http404", "http404">>
            => (del[d] = "done" /\ thrown[d] = NoThrow))

\* The first delete() removed both resources; the second found neither and
\* returned as well. Four delete requests were sent.
C30_Witness ==
  /\ del[1] = "done" /\ replies[1] = <<"ok", "ok">>
  /\ del[2] = "done" /\ replies[2] = <<"http404", "http404">>
  /\ isValue = "CANCELED"
  /\ SelectSeq(log, LAMBDA r : r \in {"deleteStaticIp", "deleteInstance"})
       = <<"deleteStaticIp", "deleteInstance", "deleteStaticIp", "deleteInstance">>

\* C34: the server of a listServers handle is constructed on a resolved
\* promise: its continuation can run at once, and does; it sets
\* INSTANCE_CREATED; with a static address of its name found by the pre-check
\* it sends no promotion request and sets IP_ALLOCATED (unless delete() closed
\* the stream first), the first guest-attribute fetch being issued in that
\* step; and a first fetch that shows apiUrl and certSha256 takes the state
\* from IP_ALLOCATED to COMPLETED in one step.
C34_ListedServer ==
  /\ [](origin = "listServers" => creation = "resolved")
  /\ []((origin = "listServers" /\ cont = "waitCreation")
          => ENABLED InstanceCreationResolves)
  /\ [][(origin = "listServers" /\ cont = "waitCreation" /\ cont' # cont)
          => (isValue' = "INSTANCE_CREATED" /\ cont' = "awaitHasStaticIp")]_vars
  /\ []((origin = "listServers" /\ hasIp = "true")
          => \A i \in DOMAIN log : log[i] # "createStaticIp")
  /\ [][(origin = "listServers" /\ poll = "notStarted" /\ poll' # "notStarted")
          => /\ isValue = "INSTANCE_CREATED" /\ isValue' = "IP_ALLOCATED"
             /\ poll' = "fetching" /\ polls' = 1]_vars
  /\ [][\A attrs \in Snapshots :
          (/\ origin = "listServers" /\ polls = 1 /\ ~isClosed
           /\ {"apiUrl", "certSha256"} \subseteq attrs
           /\ FetchReturns("ok", attrs))
            => /\ isValue = "IP_ALLOCATED" /\ isValue' = "COMPLETED"
               /\ managementApi' /\ poll' = "done"]_vars
  /\ (origin = "listServers" /\ cont = "waitCreation")
       ~> (isValue = "INSTANCE_CREATED")
  /\ (origin = "listServers" /\ hasIp = "true" /\ cont = "awaitHasStaticIp")
       ~> ((isValue = "IP_ALLOCATED" /\ poll = "fetching") \/ isClosed)

\* A listed server whose address existed and whose first fetch showed the
\* API: COMPLETED after one fetch, no promotion request sent.
C34_Witness ==
  /\ origin = "listServers"
  /\ hasIp = "true"
  /\ isValue = "COMPLETED"
  /\ polls = 1
  /\ managementApi
  /\ log = <<>>

\* C35: every value a consumer received is one of the fixed fractions (in
\* hundredths: 1, 12, 14, 40, 70, 100, or 0 for FAILED and CANCELED), hence
\* within [0, 1]; and the values received by a consumer whose sequence ended
\* normally, on COMPLETED, never decrease and end with 100.
C35_FractionsMonotone ==
  \A c \in Consumers :
    /\ \A i \in DOMAIN yielded[c] :
         /\ yielded[c][i] \in {0, 1, 12, 14, 40, 70, 100}
         /\ yielded[c][i] >= 0 /\ yielded[c][i] <= 100
    /\ (cons[c] = "ended" /\ isValue = "COMPLETED")
         => /\ yielded[c][Len(yielded[c])] = 100
            /\ \A i, j \in DOMAIN yielded[c] :
                 i <= j => yielded[c][i] <= yielded[c][j]

----------------------------------------------------------------------------
\* The server before anything happened, for the other two specifications.
ServerQuiet == ServerInit /\ origin = "createServer" /\ ~staticIp

InitCreate == ServerQuiet /\ CreateIdle /\ AuthIdle /\ WaitIdle /\ RequestIdle /\ UrlIdle
          /\ AccountIdle

NextCreate ==
  \/ CreateInstanceCalled
  \/ RegisterKeyReturns
  \/ CreateRequestReturns
  \/ RetryTimerFires

SpecCreate == InitCreate /\ [][NextCreate]_vars

MentionsFinalizing(e) == indexOf(toLowerCase(e.message), finalizing) >= 0

\* C6: under 'finalizing' errors createInstance sends at most 10 creation
\* requests, one per count of the single counter; a retry is sent exactly
\* 5000 ms after the failure before it; when the promise is rejected with a
\* 'finalizing' error, exactly 10 requests were sent and the error is that of
\* the 10th request itself; when request k succeeds, exactly k requests were
\* sent, after k-1 retried failures, and the promise fulfils with its response.
C6_BoundedRetry ==
  /\ requestCount = sent
  /\ sent <= MAX_REQUESTS
  /\ sent >= 2 => sentAt = failedAt + RETRY_TIMEOUT_MS \/ cPc = "waiting"
  /\ cPc = "waiting" => (retries = sent /\ failedAt >= sentAt)
  /\ cPc \in {"requesting", "fulfilled", "rejected"} /\ sent > 0 => retries = sent - 1
  /\ (cResult.kind = "rejected" /\ sent > 0 /\ MentionsFinalizing(cResult.error))
       => /\ sent = MAX_REQUESTS
          /\ cResult.error = lastError
          /\ cResult.error.request = MAX_REQUESTS
  /\ cResult.kind = "fulfilled" => cResult.response = sent

\* Ten requests, all failed with 'finalizing': the promise is rejected.
C6_Witness ==
  /\ cPc = "rejected"
  /\ sent = MAX_REQUESTS
  /\ retries = MAX_REQUESTS - 1
  /\ MentionsFinalizing(cResult.error)

\* C7: a creation request that fails with an error whose message does not
\* contain 'finalizing' is not retried: the promise is rejected with that
\* error and the failed request stays the last one sent.
C7_OtherErrorNotRetried ==
  (lastError # NoError /\ ~MentionsFinalizing(lastError))
    => /\ cPc = "rejected"
       /\ cResult = [kind |-> "rejected", error |-> lastError]
       /\ lastError.request = sent

\* A 401 or transport failure on the third request, after two retries.
C7_Witness ==
  /\ cPc = "rejected"
  /\ cResult.error.kind = "XhrError"
  /\ sent = 3
  /\ retries = 2

\* C31: one createInstance call registers the key once, before its first
\* creation request; every creation request, the retried ones included,
\* names the key id that registration returned; and when the registration
\* fails the call is rejected with that error, no creation request having
\* been sent.
C31_KeyRegisteredOnce ==
  /\ [](keyRegs <= 1)
  /\ [](sent > 0 => (keyRegs = 1 /\ keyId \in KeyIds))
  /\ [](Len(sshKeys) = sent /\ \A i \in DOMAIN sshKeys : sshKeys[i] = <<keyId>>)
  /\ [][keyId # 0 => keyId' = keyId]_vars
  /\ [][(cPc = "registering" /\ cPc' = "rejected")
          => /\ sent' = 0 /\ keyId' = 0
             /\ cResult'.kind = "rejected"
             /\ cResult'.error \in RequestErrors(0)]_vars
  /\ []((cPc = "rejected" /\ keyId = 0) => (sent = 0 /\ sshKeys = <<>>))

\* The creation request was retried twice and then accepted: three requests
\* with the key of the one registration.
C31_Witness ==
  /\ cPc = "fulfilled"
  /\ keyRegs = 1
  /\ retries = 2
  /\ sshKeys = <<<<keyId>>, <<keyId>>, <<keyId>>>>

----------------------------------------------------------------------------
InitAuth == ServerQuiet /\ CreateIdle /\ AuthIdle /\ WaitIdle /\ RequestIdle /\ UrlIdle
          /\ AccountIdle

NextAuth ==
  \/ \E c \in Callers : FetchAuthenticatedCalled(c)
  \/ \E c \in Callers : RefreshReturns(c)
  \/ \E c \in Callers : ApiRequestReturns(c)

SpecAuth == InitAuth /\ [][NextAuth]_vars

\* C10: the calls started before the first token refresh has completed cause
\* one request to the token endpoint, which they share.
C10_SingleFlightRefresh ==
  (tokenWrites = 0 /\ \A c \in Callers : aPc[c] # "failed") => tokenRequests <= 1

\* C23: an access token, once obtained, is kept as long as the client lives:
\* the token held is never replaced, a call made while a token is held sends
\* no request to the token endpoint, the token is written once per refresh,
\* and every API request is sent while a token is held and carries it.
C23_TokenKept ==
  /\ [][accessToken # 0 => accessToken' = accessToken]_vars
  /\ [][accessToken # 0 => tokenRequests' = tokenRequests]_vars
  /\ [][tokenWrites' \in {tokenWrites, tokenWrites + 1}]_vars
  /\ [](tokenWrites <= tokenRequests)
  /\ [][\A c \in Callers :
          (aPc[c] # "calling" /\ aPc'[c] = "calling")
            => (accessToken' # 0 /\ bearer'[c] = accessToken')]_vars

\* C32: a failed token refresh writes no token (an absent token stays
\* absent), the call that asked for it ends with the error of the refresh and
\* its API request is never sent, and a call made while no token is held asks
\* the token endpoint again.
C32_RefreshFailure ==
  /\ [][\A c \in Callers :
          (aPc[c] = "refreshing" /\ aPc'[c] = "failed")
            => /\ accessToken' = accessToken
               /\ tokenWrites' = tokenWrites
               /\ bearer' = bearer]_vars
  /\ [](\A c \in Callers : aPc[c] = "failed" => bearer[c] = 0)
  /\ [][\A c \in Callers : aPc[c] = "failed" => aPc'[c] = "failed"]_vars
  /\ [][\A c \in Callers :
          (aPc[c] = "idle" /\ aPc'[c] # "idle" /\ accessToken = 0)
            => /\ aPc'[c] = "refreshing"
               /\ tokenRequests' = tokenRequests + 1
               /\ bearer'[c] = 0]_vars
  /\ []((accessToken = 0 /\ \E c \in Callers : aPc[c] = "idle")
          => \E c \in Callers : ENABLED FetchAuthenticatedCalled(c))

\* The refresh of the first call failed; the second call asked again, got a
\* token and sent its request with it.
C32_Witness ==
  /\ aPc[1] = "failed" /\ bearer[1] = 0
  /\ aPc[2] = "done" /\ bearer[2] = 1
  /\ tokenRequests = 2 /\ tokenWrites = 1
  /\ accessToken = 1

----------------------------------------------------------------------------
\* A wait call of any variant, on any operation.
InitWait ==
  /\ ServerQuiet /\ CreateIdle /\ AuthIdle /\ RequestIdle /\ UrlIdle /\ AccountIdle
  /\ wScope \in Scopes
  /\ wOperation \in Operations
  /\ wPc = "idle"
  /\ wResult = NoResult

NextWait == WaitCalled \/ WaitReturns

SpecWait == InitWait /\ [][NextWait]_vars

\* C19: for each wait variant, when the operation the endpoint resolved with
\* carries an error list the call fails with a GcpError that carries the code
\* and message of the first error of the list, and the operation is returned
\* only when it carries no error list.
C19_WaiterRaises ==
  (wPc = "done" /\ wResult # WaitHttpError)
    => /\ wOperation.errorList => wResult.kind = "GcpError"
       /\ (wOperation.errorList /\ wOperation.errors # <<>>)
            => /\ wResult.code = wOperation.errors[1].code
               /\ wResult.message = wOperation.errors[1].message
       /\ ~wOperation.errorList => wResult = Returned

----------------------------------------------------------------------------
\* One request through either executor, on any response.
InitRequest ==
  /\ ServerQuiet /\ CreateIdle /\ AuthIdle /\ WaitIdle /\ UrlIdle /\ AccountIdle
  /\ xExecutor \in Executors
  /\ xResponse \in Responses
  /\ xPc = "idle"
  /\ xResult = [kind |-> "none"]

NextRequest == RequestSent \/ ResponseArrives

SpecRequest == InitRequest /\ [][NextRequest]_vars

\* C25: once the response has arrived, a status outside 2xx has been surfaced
\* as an error that carries the status code and the status message; a 2xx
\* response whose body is malformed as an error of another kind, without a
\* status code; and a 204 as an empty result.
C25_StatusAndParseErrors ==
  (xPc \in {"settled", "pending"} /\ xResponse # NetworkFailure) =>
    /\ ~ok(xResponse)
         => /\ xResult.kind \notin {"resolved", "unsettled"}
            /\ DOMAIN xResult = {"kind", "statusCode", "message"}
            /\ xResult.statusCode = xResponse.status
            /\ xResult.message = xResponse.statusText
    /\ (ok(xResponse) /\ xResponse.body = "malformed")
         => /\ xResult.kind \notin {"resolved", "unsettled", "HttpError"}
            /\ "statusCode" \notin DOMAIN xResult
    /\ xResponse.status = 204
         => (xResult.kind = "resolved" /\ xResult.value \in {"undefined", "emptyObject"})

----------------------------------------------------------------------------
\* One call of parseZoneUrl, on any URL.
InitUrl ==
  /\ ServerQuiet /\ CreateIdle /\ AuthIdle /\ WaitIdle /\ RequestIdle /\ AccountIdle
  /\ zUrl \in Urls
  /\ zPc = "idle"
  /\ zResult = [kind |-> "none"]

NextUrl == ParseZoneUrlCalled

SpecUrl == InitUrl /\ [][NextUrl]_vars

\* C26: on an absolute URL whose path ends in
\* /compute/v1/projects/<project>/zones/<zone> parseZoneUrl returns that
\* project and that zone; on any other it fails with a format (parse) error.
C26_ParsesOrFormatError ==
  (zPc = "done" /\ zUrl.absolute) =>
    LET path == pathname(zUrl)
        n == Len(path)
        wellFormed ==
          /\ n >= 6
          /\ <<path[n - 5], path[n - 4], path[n - 3], path[n - 1]>>
               = <<"compute", "v1", "projects", "zones">>
          /\ path[n - 2] # "" /\ path[n] # ""
    IN IF wellFormed
         THEN zResult = [kind |-> "ZoneLocator",
                         projectId |-> path[n - 2], zoneId |-> path[n]]
         ELSE zResult.kind \in {"ParseError", "FormatError"}

----------------------------------------------------------------------------
\* One createServer call, on any answer to the create-instance request and
\* any answer to the zone wait.
InitCreateServer ==
  /\ ServerQuiet /\ CreateIdle /\ AuthIdle /\ RequestIdle /\ UrlIdle
  /\ wScope = "zone"
  /\ wOperation \in Operations
  /\ wPc = "idle"
  /\ wResult = NoResult
  /\ csPc = "idle"
  /\ csOperation \in Operations
  /\ csResult = [kind |-> "none"]

NextCreateServer == CreateServerCalled \/ CreateInstanceReturns \/ WaitReturns

SpecCreateServer == InitCreateServer /\ [][NextCreateServer]_vars

\* C33: createServer returns the server handle in the step that starts the
\* zone wait, the wait still pending; when the create-instance request is
\* answered with an operation that carries a non-empty error list it throws
\* ServerInstallFailedError; and a wait is started, and a handle exists, only
\* when the operation carried no error list.
C33_HandleWithoutWaiting ==
  /\ [][(csPc # "returned" /\ csPc' = "returned")
          => /\ csResult' = ServerHandle
             /\ wPc = "idle" /\ wPc' = "waiting" /\ wResult' = NoResult
             /\ creation' = "pending" /\ isValue' = "UNKNOWN"]_vars
  /\ [][(csPc = "createInstance" /\ csPc' # csPc /\ csResult' # CreateInstanceRejected
           /\ csOperation.errorList /\ csOperation.errors # <<>>)
          => csResult' = ServerInstallFailedError]_vars
  /\ [](csResult = ServerInstallFailedError
          => (csPc = "threw" /\ wPc = "idle" /\ wResult = NoResult))
  /\ []((wPc # "idle" \/ csResult = ServerHandle)
          => (csPc = "returned" /\ csResult = ServerHandle /\ ~csOperation.errorList))

\* createServer has returned the handle and the zone wait has not answered.
C33_Witness ==
  /\ csPc = "returned"
  /\ csResult = ServerHandle
  /\ wPc = "waiting"
  /\ creation = "pending"

====
